---- MODULE Spec2Model ----
(***************************************************************************)
(* CSV ingestion and reconciliation pipeline of sentiment_eval_backend:    *)
(* services/csv_processor.py (CSVProcessor), its two entry points          *)
(* (api/views.py upload_csv, management command process_csv) and the       *)
(* relational store of core/models.py.                                     *)
(*                                                                         *)
(* Text is modelled as a sequence of one-character strings, so that strip, *)
(* the NA parsing of read_csv and the sentinel replacement are computed.   *)
(* None and the float NaN of pandas are the two one-element sequences      *)
(* None and NaN below, which no text of a file can equal.                  *)
(***************************************************************************)
EXTENDS Integers, Sequences, FiniteSets, TLC

VARIABLES
    db,          \* committed rows of reviews, review_sentences, model_predictions,
                 \* human_evaluations
    tx,          \* per run: the open transaction (rows written, not yet committed)
    upload_log,  \* per run: the in-memory DataUploadLog object
    saved_log,   \* per run: the DataUploadLog row as last saved
    proc,        \* per run: control state of the entry point and the CSVProcessor
    hist         \* per run: the store and the result when the run returned

vars == <<db, tx, upload_log, saved_log, proc, hist>>

(***************************************************************************)
(* Bounds of the model.                                                    *)
(***************************************************************************)
MaxRuns == 3             \* requests (runs) in all
MaxSequentialRuns == 2   \* requests when runs do not overlap
MaxRows == 2             \* data rows of the file of the first request
MaxRowsLater == 1        \* data rows of a new file of a later request
MaxRowsConcurrent == 1   \* data rows of a file when runs overlap
MaxBatches == 2          \* batches of the longest file
MaxEvaluations == 2      \* human evaluations submitted in all

Runs == 1..MaxRuns

(***************************************************************************)
(* Text values.                                                            *)
(***************************************************************************)
None == <<"<None>">>
NaN == <<"<NaN>">>
Empty == <<>>

IsSpace(c) == c = " "

RECURSIVE LStrip(_)
LStrip(s) == IF s = <<>> THEN s
             ELSE IF IsSpace(Head(s)) THEN LStrip(Tail(s)) ELSE s

RECURSIVE RStrip(_)
RStrip(s) == IF s = <<>> THEN s
             ELSE IF IsSpace(s[Len(s)]) THEN RStrip(SubSeq(s, 1, Len(s) - 1)) ELSE s

\* str.strip()
Strip(s) == RStrip(LStrip(s))

\* the values pandas.read_csv parses as missing (its default na_values, the
\* ones over the alphabet of the model)
NA_VALUES == { <<>>, <<"n","a","n">>, <<"N","a","N">>, <<"n","u","l","l">>,
               <<"N","U","L","L">>, <<"N","A">> }

\* one cell as read_csv returns it: no trimming, NA parsing only
ReadCell(raw) == IF raw \in NA_VALUES THEN NaN ELSE raw

\* astype(str) of one cell
AsStr(v) == IF v = NaN THEN <<"n","a","n">> ELSE v

\* the sentinel list of _clean_data
SENTINELS == { <<"n","a","n">>, <<"N","a","N">>, <<"n","u","l","l">>, <<>> }

\* (variant) the sentinel strings are not replaced by None
CleanTextKeepsSentinels(v) == Strip(AsStr(v))

\* a text column cell after _clean_data
CleanText(v) == LET s == Strip(AsStr(v)) IN IF s \in SENTINELS THEN None ELSE s

\* an identifier column cell after _clean_data
CleanId(v) == Strip(AsStr(v))

\* Python truthiness of a cell value that is None or a str
Truthy(v) == v # None /\ v # <<>>

(***************************************************************************)
(* Columns and models.                                                     *)
(***************************************************************************)
REQUIRED_COLUMNS == <<"review_id", "review_text", "review_sentence",
                      "gpt4", "Gemini flash 2.5", "perplexity", "sentence_id">>

essential_columns == {"review_id", "review_sentence", "sentence_id"}

\* model_data of _create_model_predictions: model name and the row's column
model_data == << [model_name |-> "gpt4", column |-> "gpt4"],
                 [model_name |-> "gemini", column |-> "Gemini flash 2.5"],
                 [model_name |-> "perplexity", column |-> "perplexity"] >>

ModelNames == { model_data[k].model_name : k \in DOMAIN model_data }

\* the denormalized ReviewSentence field of a model
SentenceField(s, m) == IF m = "gpt4" THEN s.gpt4_prediction
                       ELSE IF m = "gemini" THEN s.gemini_prediction
                       ELSE s.perplexity_prediction

(***************************************************************************)
(* Input files.  A file is what the entry point is handed: whether         *)
(* read_csv can parse it, the columns of its header and its data rows as   *)
(* written in the file.                                                    *)
(***************************************************************************)
AllColumns == { REQUIRED_COLUMNS[k] : k \in DOMAIN REQUIRED_COLUMNS }

RawReviewIds == { <<"A">>, <<"B">> }
RawReviewTexts == { <<>>, <<"t">>, <<"u">> }
RawSentences == { <<"s">>, <<" ">> }
RawSentenceIds == { <<"x">> }
\* the three prediction cells of a row: the example row of the specification,
\* a row blank in three different spellings, and a row with other texts
RawPredictions == { [gpt4 |-> <<"p">>, gemini |-> <<"p">>, perplexity |-> <<>>],
                    [gpt4 |-> <<" ">>, gemini |-> <<"n","u","l","l">>, perplexity |-> <<>>],
                    [gpt4 |-> <<"q">>, gemini |-> <<>>, perplexity |-> <<" ","p">>] }

RawRows == { [review_id |-> a, review_text |-> b, review_sentence |-> c, sentence_id |-> d,
              gpt4 |-> e.gpt4, gemini |-> e.gemini, perplexity |-> e.perplexity] :
             a \in RawReviewIds, b \in RawReviewTexts, c \in RawSentences,
             d \in RawSentenceIds, e \in RawPredictions }

\* the rows of the files of overlapping runs: one review, two sentences
ConcurrentRows == { [review_id |-> <<"A">>, review_text |-> b, review_sentence |-> <<"s">>,
                     sentence_id |-> d,
                     gpt4 |-> e.gpt4, gemini |-> e.gemini, perplexity |-> e.perplexity] :
                    b \in { <<"t">>, <<"u">> }, d \in { <<"x">>, <<"y">> },
                    e \in { x \in RawPredictions : x.gpt4 # <<"q">> } }

SeqsUpTo(S, n) == UNION { [1..k -> S] : k \in 0..n }

\* the candidate encodings of _read_csv, in the order it tries them
ENCODINGS == <<"utf-8", "latin-1", "cp1252">>

\* the bytes of a file: plain ASCII; text with a byte such as 0xE9, which is
\* not valid UTF-8 and is a character of latin-1 and of cp1252; text with a
\* byte such as 0x81, which is not valid UTF-8 and which cp1252 leaves undefined
ByteKinds == {"ascii", "legacy", "legacy-undefined"}

\* the codec of `encoding` decodes a file of these bytes (no UnicodeDecodeError):
\* latin-1 maps every byte
Decodes(bytes, encoding) ==
    IF encoding = "utf-8" THEN bytes = "ascii"
    ELSE IF encoding = "latin-1" THEN TRUE
    ELSE bytes # "legacy-undefined"

GoodFiles(n, rows) == { [parses |-> TRUE, bytes |-> "ascii", columns |-> AllColumns, rows |-> rs] :
                        rs \in SeqsUpTo(rows, n) }

\* a file read_csv cannot parse, and a file whose header lacks sentence_id
MalformedFile == [parses |-> FALSE, bytes |-> "ascii", columns |-> {}, rows |-> <<>>]
MissingColumnFile == [parses |-> TRUE, bytes |-> "ascii", columns |-> AllColumns \ {"sentence_id"},
                      rows |-> <<>>]

\* the example row of the specification
ExampleRow == [review_id |-> <<"A">>, review_text |-> <<"t">>, review_sentence |-> <<"s">>,
               sentence_id |-> <<"x">>, gpt4 |-> <<"p">>, gemini |-> <<"p">>, perplexity |-> <<>>]

\* a file with every required column in a legacy single-byte encoding, and a
\* file whose header lacks the gpt4 column
LegacyFile == [parses |-> TRUE, bytes |-> "legacy", columns |-> AllColumns, rows |-> <<ExampleRow>>]
MissingPredictionFile == [parses |-> TRUE, bytes |-> "ascii", columns |-> AllColumns \ {"gpt4"},
                          rows |-> <<ExampleRow>>]

\* a file whose first row has no review_sentence and whose second row has a
\* whitespace-only one
DroppedRowFile == [parses |-> TRUE, bytes |-> "ascii", columns |-> AllColumns,
                   rows |-> << [ExampleRow EXCEPT !.review_sentence = <<>>],
                               [ExampleRow EXCEPT !.review_sentence = <<" ">>] >>]

SpecialFiles == { LegacyFile, MissingPredictionFile, DroppedRowFile }

Files(n, rows) == GoodFiles(n, rows) \cup { MalformedFile, MissingColumnFile }

NoFile == [parses |-> FALSE, bytes |-> "ascii", columns |-> {}, rows |-> <<>>, none |-> TRUE]

(***************************************************************************)
(* The store: the tables, each a set of rows with a unique id.  Ingestion  *)
(* writes the first three; human_evaluations is written by the evaluators. *)
(***************************************************************************)
NoObject == [id |-> 0]

EmptyTables == [reviews |-> {}, sentences |-> {}, predictions |-> {}, evaluations |-> {}]

Ids(rows) == { x.id : x \in rows }

\* rows of a table with the rows of `writes` inserted or replaced by id
Merge(base, writes) == { x \in base : x.id \notin Ids(writes) } \cup writes

\* what run r reads: committed rows and its own uncommitted writes (READ COMMITTED)
View(r) == [reviews |-> Merge(db.reviews, tx[r].reviews),
            sentences |-> Merge(db.sentences, tx[r].sentences),
            predictions |-> Merge(db.predictions, tx[r].predictions),
            evaluations |-> db.evaluations]

Min(a, b) == IF a <= b THEN a ELSE b

SetMax(S) == IF S = {} THEN 0 ELSE CHOOSE x \in S : \A y \in S : y <= x

AllIds(t) == Ids(t.reviews) \cup Ids(t.sentences) \cup Ids(t.predictions)

\* uuid4: an id no committed or uncommitted row has
FreshId == 1 + SetMax(AllIds(db) \cup UNION { AllIds(tx[o]) : o \in Runs })

NoTx == [active |-> FALSE, reviews |-> {}, sentences |-> {}, predictions |-> {}]

(***************************************************************************)
(* The upload ledger (DataUploadLog) and the processor instance.           *)
(***************************************************************************)
NoLog == [status |-> "absent"]

\* DataUploadLog.objects.create(uploaded_by, filename, status='pending'):
\* the other fields take the defaults of the model
NewUploadLog == [status |-> "pending", total_rows |-> 0, successful_rows |-> 0,
                 failed_rows |-> 0, error_message |-> "None",
                 processing_log |-> [kind |-> "default"]]

\* the fields DataUploadLog declares; file_size_bytes is commented out
DataUploadLogFields == {"id", "uploaded_by", "filename", "status", "total_rows",
                        "successful_rows", "failed_rows", "error_message",
                        "processing_log", "created_at", "completed_at"}

\* the keyword arguments each entry point passes to DataUploadLog.objects.create
CreateKwargs(entry) == IF entry = "upload_csv"
                       THEN {"uploaded_by", "filename", "file_size_bytes", "status"}
                       ELSE {"uploaded_by", "filename", "status"}

\* CSVProcessor.__init__ and the locals of the entry point
IdleProc == [pc |-> "idle", entry |-> "none", file |-> NoFile, df |-> <<>>,
             total_rows |-> 0, i |-> 0, k |-> 0,
             successful_rows |-> 0, failed_rows |-> 0, processing_log |-> <<>>,
             review |-> NoObject, sentence |-> NoObject, created |-> FALSE, m |-> 0,
             tried |-> <<>>, error |-> "None", result |-> [kind |-> "none"]]

NoHist == [returned |-> FALSE]

batch_size == 1000

Init == /\ db = EmptyTables
        /\ tx = [r \in Runs |-> NoTx]
        /\ upload_log = [r \in Runs |-> NoLog]
        /\ saved_log = [r \in Runs |-> NoLog]
        /\ proc = [r \in Runs |-> IdleProc]
        /\ hist = [r \in Runs |-> NoHist]

\* _add_log: the message appended to processor state p (timestamps left out)
AddLog(p, message) == [p EXCEPT !.processing_log = Append(@, message)]

\* a request may start when the earlier ones have, and while no other run is
\* under way unless both are among the runs that overlap (first_overlap on)
CanStart(r, first_overlap) ==
    /\ proc[r].pc = "idle"
    /\ \A o \in Runs : o < r => proc[o].pc # "idle"
    /\ \A o \in Runs \ {r} : \/ proc[o].pc \in {"idle", "done"}
                              \/ (o >= first_overlap /\ r >= first_overlap)

\* process_csv command, handle(): the ledger is created in 'pending'
CommandCreateLog(r, files, first_overlap) ==
    /\ CanStart(r, first_overlap)
    /\ CreateKwargs("command") \subseteq DataUploadLogFields
    /\ \E f \in files :
         proc' = [proc EXCEPT ![r] = [@ EXCEPT !.pc = "created", !.entry = "command", !.file = f]]
    /\ upload_log' = [upload_log EXCEPT ![r] = NewUploadLog]
    /\ saved_log' = [saved_log EXCEPT ![r] = NewUploadLog]
    /\ UNCHANGED <<db, tx, hist>>

\* upload_csv: objects.create is called with a keyword the model does not
\* declare, Model.__init__ raises TypeError before the try block is entered
\* and before the uploaded file is touched
UploadCsvCreateLog(r, files, first_overlap) ==
    /\ CanStart(r, first_overlap)
    /\ ~ (CreateKwargs("upload_csv") \subseteq DataUploadLogFields)
    /\ \E f \in files :
         proc' = [proc EXCEPT ![r] = [@ EXCEPT !.pc = "done", !.entry = "upload_csv",
                                              !.file = f, !.error = "TypeError"]]
    /\ UNCHANGED <<db, tx, upload_log, saved_log, hist>>

\* process_csv_file, lines 33-34
StartProcessing(r) ==
    /\ proc[r].pc = "created"
    /\ upload_log' = [upload_log EXCEPT ![r] = [@ EXCEPT !.status = "processing"]]
    /\ saved_log' = [saved_log EXCEPT ![r] = upload_log'[r]]
    /\ proc' = [proc EXCEPT ![r] = [@ EXCEPT !.pc = "read"]]
    /\ UNCHANGED <<db, tx, hist>>

\* the table read_csv returns: one record per data row, labelled 0, 1, ...
Missing == <<"<Missing>">>

ReadRow(f, n) ==
    LET raw == f.rows[n]
        cell(col, v) == IF col \in f.columns THEN ReadCell(v) ELSE Missing
    IN [index |-> n - 1,
        review_id |-> cell("review_id", raw.review_id),
        review_text |-> cell("review_text", raw.review_text),
        review_sentence |-> cell("review_sentence", raw.review_sentence),
        sentence_id |-> cell("sentence_id", raw.sentence_id),
        gpt4 |-> cell("gpt4", raw.gpt4),
        gemini |-> cell("Gemini flash 2.5", raw.gemini),
        perplexity |-> cell("perplexity", raw.perplexity)]

ReadTable(f) == [n \in 1..Len(f.rows) |-> ReadRow(f, n)]

\* (variant) a UnicodeDecodeError is not caught in the loop: the first
\* candidate decides
ReadCsvFromNoFallback(f, k, tried) ==
    IF ~ Decodes(f.bytes, ENCODINGS[k])
    THEN [ok |-> FALSE, tried |-> Append(tried, ENCODINGS[k]),
          error |-> "Failed to read CSV file: UnicodeDecodeError"]
    ELSE IF ~ f.parses
    THEN [ok |-> FALSE, tried |-> Append(tried, ENCODINGS[k]),
          error |-> "Failed to read CSV file: ParserError"]
    ELSE [ok |-> TRUE, tried |-> Append(tried, ENCODINGS[k]), encoding |-> ENCODINGS[k]]

\* the for loop of _read_csv from candidate k on, `tried` the candidates tried
\* so far: a UnicodeDecodeError moves on to the next candidate, any other
\* error of pandas.read_csv leaves the loop for the outer handler, and after
\* the last candidate ValueError is raised; the outer handler wraps both.
\* In a file that neither decodes nor parses the undecodable byte is taken
\* to come before the fault of the layout.
RECURSIVE ReadCsvFrom(_, _, _)
ReadCsvFrom(f, k, tried) ==
    IF k > Len(ENCODINGS)
    THEN [ok |-> FALSE, tried |-> tried,
          error |-> "Failed to read CSV file: Could not decode CSV file with common encodings"]
    ELSE IF ~ Decodes(f.bytes, ENCODINGS[k]) THEN ReadCsvFrom(f, k + 1, Append(tried, ENCODINGS[k]))
    ELSE IF ~ f.parses
    THEN [ok |-> FALSE, tried |-> Append(tried, ENCODINGS[k]),
          error |-> "Failed to read CSV file: ParserError"]
    ELSE [ok |-> TRUE, tried |-> Append(tried, ENCODINGS[k]), encoding |-> ENCODINGS[k]]

\* _read_csv: the table and one log entry, or ValueError
ReadCsv(r) ==
    /\ proc[r].pc = "read"
    /\ LET read == ReadCsvFrom(proc[r].file, 1, <<>>)
       IN proc' = [proc EXCEPT ![r] =
                 IF read.ok
                 THEN AddLog([@ EXCEPT !.pc = "clean", !.df = ReadTable(proc[r].file),
                                       !.tried = read.tried],
                             [message |-> "Successfully read CSV", encoding |-> read.encoding])
                 ELSE [@ EXCEPT !.pc = "except", !.tried = read.tried, !.error = read.error]]
    /\ UNCHANGED <<db, tx, upload_log, saved_log, hist>>

(***************************************************************************)
(* CSVValidator.validate_csv_file and the two validate-only entry points.  *)
(***************************************************************************)
\* the report of the except branch
ErrorReport(e) == [valid |-> FALSE, error |-> e, missing_columns |-> <<>>, total_columns |-> 0,
                   total_rows |-> 0, sample_data |-> <<>>, columns |-> {}]

\* (variant) the header is compared without regard to case
validate_csv_file_ignoring_case(f) ==
    IF ~ Decodes(f.bytes, "utf-8") THEN ErrorReport("UnicodeDecodeError")
    ELSE IF ~ f.parses THEN ErrorReport("ParserError")
    ELSE LET LowerName(col) == IF col = "Sentence_ID" THEN "sentence_id" ELSE col
             missing_columns ==
                 SelectSeq(REQUIRED_COLUMNS,
                           LAMBDA col : \A c \in f.columns : LowerName(c) # LowerName(col))
             df_sample == SubSeq(ReadTable(f), 1, Min(5, Len(f.rows)))
         IN [valid |-> Len(missing_columns) = 0, missing_columns |-> missing_columns,
             total_columns |-> Cardinality(f.columns), total_rows |-> Len(f.rows),
             sample_data |-> SubSeq(df_sample, 1, Min(3, Len(df_sample))),
             columns |-> f.columns]

\* lines 238-251: the report on a file read_csv has parsed
StructureReport(f) ==
    LET missing_columns == SelectSeq(REQUIRED_COLUMNS, LAMBDA col : col \notin f.columns)
        df_sample == SubSeq(ReadTable(f), 1, Min(5, Len(f.rows)))
    IN [valid |-> Len(missing_columns) = 0, missing_columns |-> missing_columns,
        total_columns |-> Cardinality(f.columns), total_rows |-> Len(f.rows),
        sample_data |-> SubSeq(df_sample, 1, Min(3, Len(df_sample))),
        columns |-> f.columns]

\* (variant) no except branch: the exception of read_csv leaves the validator
validate_csv_file_unguarded(f) ==
    IF ~ Decodes(f.bytes, "utf-8") THEN [raised |-> "UnicodeDecodeError"]
    ELSE IF ~ f.parses THEN [raised |-> "ParserError"]
    ELSE StructureReport(f)

\* validate_csv_file: the file is read with utf-8 only; the header is
\* compared with REQUIRED_COLUMNS name by name, in the order of that list
\* (the order of the header itself is not modelled: columns is a set)
validate_csv_file(f) ==
    IF ~ Decodes(f.bytes, "utf-8") THEN ErrorReport("UnicodeDecodeError")
    ELSE IF ~ f.parses THEN ErrorReport("ParserError")
    ELSE StructureReport(f)

\* upload_csv, views.py lines 478-484: the response to a file the validator
\* does not find valid; the message is built from missing_columns alone
UploadGateResponse(report) ==
    [status |-> 400,
     error |-> [text |-> "Invalid CSV structure", columns |-> report.missing_columns]]

\* process_csv command with --validate-only, lines 53-74: the report is
\* printed and the command returns before a ledger is created
CommandValidateOnly(r, files, first_overlap) ==
    /\ CanStart(r, first_overlap)
    /\ \E f \in files :
         proc' = [proc EXCEPT ![r] =
                    [@ EXCEPT !.pc = "done", !.entry = "validate_only", !.file = f,
                              !.result = [kind |-> "report", report |-> validate_csv_file(f)]]]
    /\ UNCHANGED <<db, tx, upload_log, saved_log, hist>>

\* validate_csv endpoint, views.py lines 523-548: the report is the response
ValidateCsv(r, files, first_overlap) ==
    /\ CanStart(r, first_overlap)
    /\ \E f \in files :
         proc' = [proc EXCEPT ![r] =
                    [@ EXCEPT !.pc = "done", !.entry = "validate_csv", !.file = f,
                              !.result = [kind |-> "report", report |-> validate_csv_file(f)]]]
    /\ UNCHANGED <<db, tx, upload_log, saved_log, hist>>

(***************************************************************************)
(* _clean_data                                                             *)
(***************************************************************************)
\* dropna(subset=essential_columns) keeps a row
HasEssential(row) == row.review_id # NaN /\ row.review_sentence # NaN /\ row.sentence_id # NaN

\* a text column is cleaned only if the file has it
CleanTextColumn(v) == IF v = Missing THEN Missing ELSE CleanText(v)

CleanRow(row) == [index |-> row.index,
                  review_id |-> CleanId(row.review_id),
                  review_text |-> CleanTextColumn(row.review_text),
                  review_sentence |-> CleanTextColumn(row.review_sentence),
                  sentence_id |-> CleanId(row.sentence_id),
                  gpt4 |-> CleanTextColumn(row.gpt4),
                  gemini |-> CleanTextColumn(row.gemini),
                  perplexity |-> CleanTextColumn(row.perplexity)]

CleanTable(df) == LET kept == SelectSeq(df, HasEssential)
                  IN [n \in 1..Len(kept) |-> CleanRow(kept[n])]

\* _clean_data: dropna raises KeyError when an essential column is absent
CleanData(r) ==
    /\ proc[r].pc = "clean"
    /\ proc' = [proc EXCEPT ![r] =
         IF ~ (essential_columns \subseteq proc[r].file.columns)
         THEN [@ EXCEPT !.pc = "except", !.error = "KeyError"]
         ELSE LET cleaned == CleanTable(proc[r].df)
                  dropped_count == Len(proc[r].df) - Len(cleaned)
                  p == [proc[r] EXCEPT !.pc = "total", !.df = cleaned]
              IN IF dropped_count > 0
                 THEN AddLog(p, [message |-> "Dropped rows", count |-> dropped_count])
                 ELSE p]
    /\ UNCHANGED <<db, tx, upload_log, saved_log, hist>>

\* process_csv_file, lines 44-46
SaveTotalRows(r) ==
    /\ proc[r].pc = "total"
    /\ proc' = [proc EXCEPT ![r] = [@ EXCEPT !.pc = "batch", !.total_rows = Len(proc[r].df), !.i = 0]]
    /\ upload_log' = [upload_log EXCEPT ![r] = [@ EXCEPT !.total_rows = Len(proc[r].df)]]
    /\ saved_log' = [saved_log EXCEPT ![r] = upload_log'[r]]
    /\ UNCHANGED <<db, tx, hist>>

\* (variant) the batch is announced with the offset i instead of row i + 1
BatchStartLogsOffset(r) ==
    /\ proc[r].pc = "batch"
    /\ proc' = [proc EXCEPT ![r] =
         IF proc[r].i < proc[r].total_rows
         THEN AddLog([@ EXCEPT !.pc = "row", !.k = proc[r].i + 1],
                     [message |-> "Processing batch", row |-> proc[r].i])
         ELSE [@ EXCEPT !.pc = "finalize"]]
    /\ UNCHANGED <<db, tx, upload_log, saved_log, hist>>

\* the loop of process_csv_file (line 49) and the head of _process_batch (136)
BatchStart(r) ==
    /\ proc[r].pc = "batch"
    /\ proc' = [proc EXCEPT ![r] =
         IF proc[r].i < proc[r].total_rows
         THEN AddLog([@ EXCEPT !.pc = "row", !.k = proc[r].i + 1],
                     [message |-> "Processing batch", row |-> proc[r].i + 1])
         ELSE [@ EXCEPT !.pc = "finalize"]]
    /\ UNCHANGED <<db, tx, upload_log, saved_log, hist>>

(***************************************************************************)
(* _process_batch and _process_single_row: one row in its atomic scope.    *)
(***************************************************************************)
Row(r) == proc[r].df[proc[r].k]

\* row.get(column, default)
RowGet(v, default) == IF v = Missing THEN default ELSE v

\* the row's value in the column of model number m
RowPrediction(row, m) == IF m = 1 THEN RowGet(row.gpt4, None)
                         ELSE IF m = 2 THEN RowGet(row.gemini, None)
                         ELSE RowGet(row.perplexity, None)

\* the for loop of _process_batch moves to the next row of the batch, or
\* the batch ends and the loop of process_csv_file goes on
NextRow(p) ==
    LET q == [p EXCEPT !.review = NoObject, !.sentence = NoObject, !.created = FALSE, !.m = 0]
    IN IF p.k + 1 <= Min(p.i + batch_size, p.total_rows)
       THEN [q EXCEPT !.k = p.k + 1, !.pc = "row"]
       ELSE [q EXCEPT !.i = p.i + batch_size, !.pc = "batch"]

\* (variant) the writes of the failed row stay: no rollback
AtomicExitKeepsWrites(r) == View(r)

\* the committed tables after the atomic scope is left by an exception
AtomicExitOnException(r) == db

\* (variant) the exception of a row is not caught in _process_batch and
\* reaches the handler of process_csv_file
RowRaiseAborts(r, err) ==
    /\ db' = AtomicExitOnException(r)
    /\ tx' = [tx EXCEPT ![r] = NoTx]
    /\ proc' = [proc EXCEPT ![r] = [@ EXCEPT !.pc = "except", !.error = err]]
    /\ UNCHANGED <<upload_log, saved_log, hist>>

\* lines 143-147: the exception leaves the atomic scope (rollback) and is
\* caught; the row counts as failed and is logged with index + 1
RowRaise(r, err) ==
    /\ db' = AtomicExitOnException(r)
    /\ tx' = [tx EXCEPT ![r] = NoTx]
    /\ proc' = [proc EXCEPT ![r] =
                 NextRow(AddLog([@ EXCEPT !.failed_rows = @ + 1],
                                [message |-> "Row", row |-> Row(r).index + 1, error |-> err]))]
    /\ UNCHANGED <<upload_log, saved_log, hist>>

\* line 140: transaction.atomic() is entered
RowBegin(r) ==
    /\ proc[r].pc = "row"
    /\ tx' = [tx EXCEPT ![r] = [NoTx EXCEPT !.active = TRUE]]
    /\ proc' = [proc EXCEPT ![r] = [@ EXCEPT !.pc = "get_review"]]
    /\ UNCHANGED <<db, upload_log, saved_log, hist>>

\* NOT NULL columns of the three tables
ReviewNotNull(x) == x.review_id # None /\ x.review_text # None
SentenceNotNull(x) == x.sentence_id # None /\ x.review_sentence # None
PredictionNotNull(x) == x.model_name # None /\ x.prediction_text # None

\* a row of another open transaction holds the lock of row id
RowLocked(r, id) == \E o \in Runs \ {r} : id \in AllIds(tx[o])

\* unique_together = ['review', 'sentence_id'] and ['sentence', 'model_name']
SameSentenceKey(x, y) == x.review = y.review /\ x.sentence_id = y.sentence_id
SamePredictionKey(x, y) == x.sentence = y.sentence /\ x.model_name = y.model_name

\* (variant) no unique index on (review, sentence_id): the INSERT never waits
SentenceInsertNeverWaits(r, x) == FALSE

\* an INSERT of x waits while another open transaction holds an uncommitted
\* row with the same unique key (the unique index decides at its commit)
SentenceInsertWaits(r, x) ==
    \E o \in Runs \ {r} : \E y \in tx[o].sentences :
        y.id \notin Ids(db.sentences) /\ SameSentenceKey(x, y)

PredictionInsertWaits(r, x) ==
    \E o \in Runs \ {r} : \E y \in tx[o].predictions :
        y.id \notin Ids(db.predictions) /\ SamePredictionKey(x, y)

Stay(r, p) == /\ proc' = [proc EXCEPT ![r] = p]
              /\ UNCHANGED <<db, upload_log, saved_log, hist>>

\* (variant) the lookup of the Review never finds one
ReviewLookupMisses(reviews, review_id) == {}

\* the lookups of get_or_create and update_or_create
ReviewLookup(reviews, review_id) == { x \in reviews : x.review_id = review_id }
SentenceLookup(sentences, key) == { x \in sentences : SameSentenceKey(x, key) }
PredictionLookup(predictions, key) == { x \in predictions : SamePredictionKey(x, key) }

\* lines 152-157: Review.objects.get_or_create(review_id=..., defaults=...)
GetReview(r, faults) ==
    /\ proc[r].pc = "get_review"
    /\ LET row == Row(r)
           matches == ReviewLookup(View(r).reviews, row.review_id)
           new == [id |-> FreshId, review_id |-> row.review_id,
                   review_text |-> RowGet(row.review_text, <<>>)]
       IN \E fault \in faults :
           IF fault THEN RowRaise(r, "DatabaseError")
           ELSE IF Cardinality(matches) > 1 THEN RowRaise(r, "MultipleObjectsReturned")
           ELSE IF matches # {}
           THEN /\ Stay(r, [proc[r] EXCEPT !.pc = "update_review", !.created = FALSE,
                                            !.review = CHOOSE x \in matches : TRUE])
                /\ UNCHANGED tx
           ELSE IF ~ ReviewNotNull(new) THEN RowRaise(r, "IntegrityError")
           ELSE /\ Stay(r, [proc[r] EXCEPT !.pc = "update_review", !.created = TRUE, !.review = new])
                /\ tx' = [tx EXCEPT ![r].reviews = @ \cup {new}]

\* lines 159-163
UpdateReview(r, faults) ==
    /\ proc[r].pc = "update_review"
    /\ LET row == Row(r)
           p == proc[r]
           text == RowGet(row.review_text, None)
           changed == [p.review EXCEPT !.review_text = text]
       IN IF ~ p.created /\ Truthy(text) /\ p.review.review_text # text
          THEN /\ ~ RowLocked(r, p.review.id)
               /\ \E fault \in faults :
                    IF fault THEN RowRaise(r, "DatabaseError")
                    ELSE /\ Stay(r, [p EXCEPT !.pc = "get_sentence", !.review = changed])
                         /\ tx' = [tx EXCEPT ![r].reviews = Merge(@, {changed})]
          ELSE /\ Stay(r, [p EXCEPT !.pc = "get_sentence"])
               /\ UNCHANGED tx

\* lines 166-175: ReviewSentence.objects.get_or_create(review, sentence_id, defaults)
GetSentence(r, faults) ==
    /\ proc[r].pc = "get_sentence"
    /\ LET row == Row(r)
           p == proc[r]
           new == [id |-> FreshId, review |-> p.review.id, sentence_id |-> row.sentence_id,
                   review_sentence |-> row.review_sentence,
                   gpt4_prediction |-> RowPrediction(row, 1),
                   gemini_prediction |-> RowPrediction(row, 2),
                   perplexity_prediction |-> RowPrediction(row, 3)]
           matches == SentenceLookup(View(r).sentences, new)
       IN /\ matches # {} \/ ~ SentenceInsertWaits(r, new)
          /\ \E fault \in faults :
               IF fault THEN RowRaise(r, "DatabaseError")
               ELSE IF Cardinality(matches) > 1 THEN RowRaise(r, "MultipleObjectsReturned")
               ELSE IF matches # {}
               THEN /\ Stay(r, [p EXCEPT !.pc = "update_sentence", !.created = FALSE,
                                         !.sentence = CHOOSE x \in matches : TRUE])
                    /\ UNCHANGED tx
               ELSE IF ~ SentenceNotNull(new) THEN RowRaise(r, "IntegrityError")
               ELSE /\ Stay(r, [p EXCEPT !.pc = "update_sentence", !.created = TRUE, !.sentence = new])
                    /\ tx' = [tx EXCEPT ![r].sentences = @ \cup {new}]

\* (variant) only the sentence text is compared with the row
UpdateSentenceComparesTextOnly(r, faults) ==
    /\ proc[r].pc = "update_sentence"
    /\ LET row == Row(r)
           p == proc[r]
           changed == [p.sentence EXCEPT !.review_sentence = row.review_sentence]
           next == [p EXCEPT !.pc = "prediction", !.m = 1]
       IN IF ~ p.created /\ changed # p.sentence
          THEN /\ ~ RowLocked(r, p.sentence.id)
               /\ \E fault \in faults :
                    IF fault THEN RowRaise(r, "DatabaseError")
                    ELSE IF ~ SentenceNotNull(changed) THEN RowRaise(r, "IntegrityError")
                    ELSE /\ Stay(r, [next EXCEPT !.sentence = changed])
                         /\ tx' = [tx EXCEPT ![r].sentences = Merge(@, {changed})]
          ELSE /\ Stay(r, next)
               /\ UNCHANGED tx

\* lines 177-197: the four fields are compared and set, one save if any differs
UpdateSentence(r, faults) ==
    /\ proc[r].pc = "update_sentence"
    /\ LET row == Row(r)
           p == proc[r]
           changed == [p.sentence EXCEPT !.review_sentence = row.review_sentence,
                                         !.gpt4_prediction = RowPrediction(row, 1),
                                         !.gemini_prediction = RowPrediction(row, 2),
                                         !.perplexity_prediction = RowPrediction(row, 3)]
           next == [p EXCEPT !.pc = "prediction", !.m = 1]
       IN IF ~ p.created /\ changed # p.sentence
          THEN /\ ~ RowLocked(r, p.sentence.id)
               /\ \E fault \in faults :
                    IF fault THEN RowRaise(r, "DatabaseError")
                    ELSE IF ~ SentenceNotNull(changed) THEN RowRaise(r, "IntegrityError")
                    ELSE /\ Stay(r, [next EXCEPT !.sentence = changed])
                         /\ tx' = [tx EXCEPT ![r].sentences = Merge(@, {changed})]
          ELSE /\ Stay(r, next)
               /\ UNCHANGED tx

\* (variant) the defaults of update_or_create carry the prediction text
\* only: the confidence score of a found prediction is kept
PredictionKeepsScore(r, faults) ==
    /\ proc[r].pc = "prediction"
    /\ LET row == Row(r)
           p == proc[r]
           prediction_text == RowPrediction(row, p.m)
           new == [id |-> FreshId, sentence |-> p.sentence.id,
                   model_name |-> model_data[p.m].model_name,
                   prediction_text |-> prediction_text, confidence_score |-> None]
           matches == PredictionLookup(View(r).predictions, new)
           old == CHOOSE x \in matches : TRUE
           next == IF p.m < Len(model_data) THEN [p EXCEPT !.m = p.m + 1]
                   ELSE [p EXCEPT !.pc = "count"]
       IN IF Truthy(prediction_text) /\ Strip(prediction_text) # <<>>
          THEN /\ IF matches = {} THEN ~ PredictionInsertWaits(r, new)
                                  ELSE ~ RowLocked(r, old.id)
               /\ \E fault \in faults :
                    IF fault THEN RowRaise(r, "DatabaseError")
                    ELSE /\ Stay(r, next)
                         /\ tx' = [tx EXCEPT ![r].predictions =
                                    IF matches = {} THEN @ \cup {new}
                                    ELSE Merge(@, {[old EXCEPT !.prediction_text = prediction_text]})]
          ELSE /\ Stay(r, next)
               /\ UNCHANGED tx

\* lines 210-219: one model of _create_model_predictions; update_or_create
\* selects the row for update, then inserts or saves it
Prediction(r, faults) ==
    /\ proc[r].pc = "prediction"
    /\ LET row == Row(r)
           p == proc[r]
           prediction_text == RowPrediction(row, p.m)
           new == [id |-> FreshId, sentence |-> p.sentence.id,
                   model_name |-> model_data[p.m].model_name,
                   prediction_text |-> prediction_text, confidence_score |-> None]
           matches == PredictionLookup(View(r).predictions, new)
           old == CHOOSE x \in matches : TRUE
           next == IF p.m < Len(model_data) THEN [p EXCEPT !.m = p.m + 1]
                   ELSE [p EXCEPT !.pc = "count"]
       IN IF Truthy(prediction_text) /\ Strip(prediction_text) # <<>>
          THEN /\ IF matches = {} THEN ~ PredictionInsertWaits(r, new)
                                  ELSE ~ RowLocked(r, old.id)
               /\ \E fault \in faults :
                    IF fault THEN RowRaise(r, "DatabaseError")
                    ELSE /\ Stay(r, next)
                         /\ tx' = [tx EXCEPT ![r].predictions =
                                    IF matches = {} THEN @ \cup {new}
                                    ELSE Merge(@, {[old EXCEPT !.prediction_text = prediction_text,
                                                               !.confidence_score = None]})]
          ELSE /\ Stay(r, next)
               /\ UNCHANGED tx

\* line 142, inside the atomic scope
CountSuccess(r) ==
    /\ proc[r].pc = "count"
    /\ Stay(r, [proc[r] EXCEPT !.pc = "commit", !.successful_rows = @ + 1])
    /\ UNCHANGED tx

\* line 140, leaving the atomic scope: COMMIT, which the store may refuse
Commit(r, faults) ==
    /\ proc[r].pc = "commit"
    /\ \E fault \in faults :
         IF fault THEN RowRaise(r, "DatabaseError")
         ELSE /\ db' = View(r)
              /\ tx' = [tx EXCEPT ![r] = NoTx]
              /\ proc' = [proc EXCEPT ![r] = NextRow(@)]
              /\ UNCHANGED <<upload_log, saved_log, hist>>

\* what the run leaves behind when process_csv_file returns
Returned(r, result) == [returned |-> TRUE, db |-> db, file |-> proc[r].file, result |-> result]

\* lines 54-73
Finalize(r) ==
    /\ proc[r].pc = "finalize"
    /\ LET p == proc[r]
           summary == [total_rows |-> p.total_rows, successful_rows |-> p.successful_rows,
                       failed_rows |-> p.failed_rows]
           result == [kind |-> "result", success |-> TRUE, total_rows |-> p.total_rows,
                      successful_rows |-> p.successful_rows, failed_rows |-> p.failed_rows,
                      processing_log |-> p.processing_log]
       IN /\ upload_log' = [upload_log EXCEPT ![r] =
                 [@ EXCEPT !.successful_rows = p.successful_rows,
                           !.failed_rows = p.failed_rows,
                           !.status = "completed",
                           !.processing_log = [kind |-> "completed", logs |-> p.processing_log,
                                               summary |-> summary]]]
          /\ saved_log' = [saved_log EXCEPT ![r] = upload_log'[r]]
          /\ proc' = [proc EXCEPT ![r] = [@ EXCEPT !.pc = "returned", !.result = result]]
          /\ hist' = [hist EXCEPT ![r] = Returned(r, result)]
    /\ UNCHANGED <<db, tx>>

\* (variant) the handler saves the ledger without the log entries
ExceptHandlerDropsLog(r) ==
    /\ proc[r].pc = "except"
    /\ LET p == proc[r]
           result == [kind |-> "result", success |-> FALSE, error |-> p.error,
                      processing_log |-> p.processing_log]
       IN /\ upload_log' = [upload_log EXCEPT ![r] =
                 [@ EXCEPT !.status = "failed",
                           !.error_message = p.error,
                           !.processing_log = [kind |-> "failed", error |-> p.error,
                                               logs |-> <<>>]]]
          /\ saved_log' = [saved_log EXCEPT ![r] = upload_log'[r]]
          /\ proc' = [proc EXCEPT ![r] = [@ EXCEPT !.pc = "returned", !.result = result]]
          /\ hist' = [hist EXCEPT ![r] = Returned(r, result)]
    /\ UNCHANGED <<db, tx>>

\* lines 75-89
ExceptHandler(r) ==
    /\ proc[r].pc = "except"
    /\ LET p == proc[r]
           result == [kind |-> "result", success |-> FALSE, error |-> p.error,
                      processing_log |-> p.processing_log]
       IN /\ upload_log' = [upload_log EXCEPT ![r] =
                 [@ EXCEPT !.status = "failed",
                           !.error_message = p.error,
                           !.processing_log = [kind |-> "failed", error |-> p.error,
                                               logs |-> p.processing_log]]]
          /\ saved_log' = [saved_log EXCEPT ![r] = upload_log'[r]]
          /\ proc' = [proc EXCEPT ![r] = [@ EXCEPT !.pc = "returned", !.result = result]]
          /\ hist' = [hist EXCEPT ![r] = Returned(r, result)]
    /\ UNCHANGED <<db, tx>>

\* (variant) the entry point marks a run with failed rows as failed
ReportResultMarksFailed(log, result) ==
    IF result.success /\ result.failed_rows > 0 THEN [log EXCEPT !.status = "failed"] ELSE log

\* the ledger object after the entry point has reported the result: the
\* command only prints (and raises CommandError on failure)
ReportResult(log, result) == log

\* process_csv command, lines 90-113
CommandFinish(r) ==
    /\ proc[r].pc = "returned"
    /\ proc[r].entry = "command"
    /\ upload_log' = [upload_log EXCEPT ![r] = ReportResult(@, proc[r].result)]
    /\ saved_log' = [saved_log EXCEPT ![r] =
                      IF upload_log'[r] = upload_log[r] THEN @ ELSE upload_log'[r]]
    /\ proc' = [proc EXCEPT ![r] = [@ EXCEPT !.pc = "done"]]
    /\ UNCHANGED <<db, tx, hist>>

(***************************************************************************)
(* The other writers and readers of the store: the admin site, the         *)
(* evaluators, the cleanup_data command and the export of the evaluations. *)
(* EvaluationSession, which cleanup_data also prunes, is left out.         *)
(***************************************************************************)
\* no request is under way
Quiet == \A o \in Runs : proc[o].pc \in {"idle", "done"}

\* a confidence score within the validators of the field
ConfidenceScores == { <<"0.5">> }

\* core/admin.py, ModelPredictionAdmin: the change form saves every field of
\* a ModelPrediction but created_at, confidence_score among them
AdminSetConfidence ==
    /\ Quiet
    /\ \E x \in db.predictions : \E score \in ConfidenceScores :
         /\ x.confidence_score = None
         /\ db' = [db EXCEPT !.predictions = Merge(@, {[x EXCEPT !.confidence_score = score]})]
    /\ UNCHANGED <<tx, upload_log, saved_log, proc, hist>>

Evaluators == {"e1", "e2"}

\* HumanEvaluationViewSet.perform_create with HumanEvaluationCreateSerializer:
\* an evaluator submits an evaluation of a stored sentence; unique_together
\* (sentence, evaluator) is validated by the serializer
CreateEvaluation ==
    /\ Quiet
    /\ Cardinality(db.evaluations) < MaxEvaluations
    /\ \E x \in db.sentences : \E evaluator \in Evaluators :
         /\ \A e \in db.evaluations : ~ (e.sentence = x.id /\ e.evaluator = evaluator)
         /\ db' = [db EXCEPT !.evaluations = @ \cup
                     {[id |-> 1 + SetMax(Ids(db.evaluations)), sentence |-> x.id,
                       evaluator |-> evaluator, best_model |-> "gpt4",
                       alternative_solution |-> None, notes |-> None]}]
    /\ UNCHANGED <<tx, upload_log, saved_log, proc, hist>>

\* cleanup_data, line 20-24: the sentences whose three prediction fields are null
empty_sentences(t) == { x \in t.sentences : /\ x.gpt4_prediction = None
                                             /\ x.gemini_prediction = None
                                             /\ x.perplexity_prediction = None }

\* QuerySet.delete() of sentences: on_delete=CASCADE removes their
\* ModelPredictions and HumanEvaluations with them
DeleteSentences(t, gone) ==
    [t EXCEPT !.sentences = @ \ gone,
              !.predictions = { q \in @ : q.sentence \notin Ids(gone) },
              !.evaluations = { e \in @ : e.sentence \notin Ids(gone) }]

\* cleanup_data command, handle(), in one transaction.atomic()
CleanupData(r, dry_runs, first_overlap) ==
    /\ CanStart(r, first_overlap)
    /\ \E dry_run \in dry_runs :
         /\ db' = IF dry_run THEN db ELSE DeleteSentences(db, empty_sentences(db))
         /\ proc' = [proc EXCEPT ![r] =
                [@ EXCEPT !.pc = "done", !.entry = "cleanup",
                          !.result = [kind |-> "cleanup", dry_run |-> dry_run,
                                      deleted_sentences |-> Cardinality(empty_sentences(db))]]]
    /\ UNCHANGED <<tx, upload_log, saved_log, hist>>

\* the keys of the dict export_evaluations_to_csv appends for an evaluation
ExportColumns == <<"sentence_id", "review_id", "review_sentence", "gpt4_prediction",
                   "gemini_prediction", "perplexity_prediction", "evaluator", "best_model",
                   "alternative_solution", "notes", "evaluation_date">>

\* lines 278-290: the dict of one evaluation (the date left out, as timestamps are)
ExportRow(t, e) ==
    LET sentence == CHOOSE x \in t.sentences : x.id = e.sentence
        review == CHOOSE v \in t.reviews : v.id = sentence.review
    IN [sentence_id |-> sentence.sentence_id, review_id |-> review.review_id,
        review_sentence |-> sentence.review_sentence,
        gpt4_prediction |-> sentence.gpt4_prediction,
        gemini_prediction |-> sentence.gemini_prediction,
        perplexity_prediction |-> sentence.perplexity_prediction,
        evaluator |-> e.evaluator, best_model |-> e.best_model,
        alternative_solution |-> e.alternative_solution, notes |-> e.notes,
        evaluation_date |-> "created_at"]

\* lines 276-290: the loop over the queryset, in the order the store returns it
RECURSIVE ExportData(_, _)
ExportData(t, evaluations) ==
    IF evaluations = {} THEN <<>>
    ELSE LET e == CHOOSE x \in evaluations : \A y \in evaluations : x.id <= y.id
         IN <<ExportRow(t, e)>> \o ExportData(t, evaluations \ {e})

\* pd.DataFrame(data) of a list of dicts: the columns are the keys of the
\* dicts, and an empty list gives a table without columns
DataFrame(data) == [columns |-> IF data = <<>> THEN <<>> ELSE ExportColumns, rows |-> data]

\* export_evaluations_to_csv, called by the export_evaluations endpoint and
\* the export_data command
ExportEvaluations(r, first_overlap) ==
    /\ CanStart(r, first_overlap)
    /\ proc' = [proc EXCEPT ![r] =
           [@ EXCEPT !.pc = "done", !.entry = "export",
                     !.result = [kind |-> "export",
                                 df |-> DataFrame(ExportData(db, db.evaluations))]]]
    /\ UNCHANGED <<db, tx, upload_log, saved_log, hist>>

(***************************************************************************)
(* Specifications.                                                         *)
(*   Spec           runs one after another; a row fails only on what the   *)
(*                  data makes the store reject                            *)
(*   SpecFault      runs one after another; the store may also refuse any  *)
(*                  statement or the COMMIT of a row's atomic scope        *)
(*   SpecConcurrent runs interleave statement by statement                 *)
(***************************************************************************)
NoFault == {FALSE}
AnyFault == {FALSE, TRUE}

Steps(r, faults) ==
    \/ StartProcessing(r)
    \/ ReadCsv(r)
    \/ CleanData(r)
    \/ SaveTotalRows(r)
    \/ BatchStart(r)
    \/ RowBegin(r)
    \/ GetReview(r, faults)
    \/ UpdateReview(r, faults)
    \/ GetSentence(r, faults)
    \/ UpdateSentence(r, faults)
    \/ Prediction(r, faults)
    \/ CountSuccess(r)
    \/ Commit(r, faults)
    \/ Finalize(r)
    \/ ExceptHandler(r)
    \/ CommandFinish(r)

\* the files handed to request r when runs do not overlap: any file for the
\* first request, then a file handed in before or any shorter file
InputFiles(r) ==
    IF r = 1 THEN Files(MaxRows, RawRows) \cup SpecialFiles
    ELSE IF r <= MaxSequentialRuns
    THEN Files(MaxRowsLater, RawRows) \cup
         { proc[o].file : o \in { q \in Runs : q < r /\ proc[q].entry = "command" } }
    ELSE {}

\* the files uploaded to the endpoint, which fails before it touches them
UploadFiles(r) ==
    IF r <= MaxSequentialRuns
    THEN GoodFiles(MaxRowsLater, {ExampleRow}) \cup { MalformedFile, MissingColumnFile } \cup SpecialFiles
    ELSE {}

NoOverlap == MaxRuns + 1

Next == \E r \in Runs :
    \/ CommandCreateLog(r, InputFiles(r), NoOverlap)
    \/ UploadCsvCreateLog(r, UploadFiles(r), NoOverlap)
    \/ Steps(r, NoFault)

Spec == Init /\ [][Next]_vars

\* one request, and the store may refuse
FaultFiles(r) == IF r = 1 THEN Files(MaxRows, RawRows) ELSE {}

NextFault == \E r \in Runs :
    \/ CommandCreateLog(r, FaultFiles(r), NoOverlap)
    \/ UploadCsvCreateLog(r, FaultFiles(r) \cap UploadFiles(r), NoOverlap)
    \/ Steps(r, AnyFault)

SpecFault == Init /\ [][NextFault]_vars

\* the first request runs alone and leaves a store behind (any kind of file,
\* its rows with one text and one sentence); the later ones overlap, each
\* with a file of rows
FirstOverlap == MaxRuns - 1
ConcurrentFiles(r) ==
    IF r < FirstOverlap
    THEN Files(MaxRowsConcurrent, { x \in ConcurrentRows : /\ x.review_text = <<"t">>
                                                           /\ x.sentence_id = <<"x">> })
    ELSE { f \in GoodFiles(MaxRowsConcurrent, ConcurrentRows) : f.rows # <<>> }

NextConcurrent == \E r \in Runs :
    \/ CommandCreateLog(r, ConcurrentFiles(r), FirstOverlap)
    \/ UploadCsvCreateLog(r, { LegacyFile }, FirstOverlap)
    \/ Steps(r, NoFault)

SpecConcurrent == Init /\ [][NextConcurrent]_vars

\* the headers handed to the validator: required columns left out, a column
\* spelled in another case added
ValidatorHeaders ==
    { (AllColumns \ left_out) \cup added :
        left_out \in SUBSET {"review_id", "gpt4", "sentence_id"},
        added \in SUBSET {"Sentence_ID"} }

ValidatorFiles ==
    { [parses |-> a, bytes |-> b, columns |-> c, rows |-> d] :
        a \in BOOLEAN, b \in {"ascii", "legacy"}, c \in ValidatorHeaders,
        d \in SeqsUpTo({ExampleRow}, MaxRowsLater) }

\* files with every required column, of each kind of bytes, that parse or not
ReaderFiles ==
    { [parses |-> a, bytes |-> b, columns |-> AllColumns, rows |-> <<ExampleRow>>] :
        a \in BOOLEAN, b \in ByteKinds }

\* the first request is an ingestion and leaves a ledger and a store behind,
\* the later ones are validations
FirstFiles(r) ==
    IF r = 1
    THEN GoodFiles(MaxRowsLater, {ExampleRow}) \cup { MalformedFile, MissingColumnFile }
         \cup ReaderFiles
    ELSE {}

LaterFiles(r) == IF 1 < r /\ r <= MaxSequentialRuns THEN ValidatorFiles ELSE {}

NextFiles == \E r \in Runs :
    \/ CommandCreateLog(r, FirstFiles(r), NoOverlap)
    \/ Steps(r, NoFault)
    \/ CommandValidateOnly(r, LaterFiles(r), NoOverlap)
    \/ ValidateCsv(r, LaterFiles(r), NoOverlap)

SpecFiles == Init /\ [][NextFiles]_vars

\* the requests before the last one overlap on an empty store, each with one
\* row of the same review; the last request runs alone after them
RaceOverlap(r) == IF r < MaxRuns THEN 1 ELSE NoOverlap

\* the files of the race: one row of review A for sentence x or y, and a file
\* that cannot be parsed; the overlapping requests upload one that parses
RacePool ==
    { [parses |-> TRUE, bytes |-> "ascii", columns |-> AllColumns,
       rows |-> << [ExampleRow EXCEPT !.sentence_id = d] >>] : d \in { <<"x">>, <<"y">> } }
    \cup { MalformedFile }

RaceFiles(r) ==
    { f \in RacePool : IF r < MaxRuns THEN f.parses ELSE f.rows \in { <<>>, <<ExampleRow>> } }

NextRace == \E r \in Runs :
    \/ CommandCreateLog(r, RaceFiles(r), RaceOverlap(r))
    \/ Steps(r, NoFault)

SpecRace == Init /\ [][NextRace]_vars

\* one request with a file that fills its batches: n rows of one sentence,
\* the row at position bad (if any) with a whitespace-only review_sentence
BatchFile(n, bad) ==
    [parses |-> TRUE, bytes |-> "ascii", columns |-> AllColumns,
     rows |-> [k \in 1..n |-> IF k = bad THEN [ExampleRow EXCEPT !.review_sentence = <<" ">>]
                                         ELSE ExampleRow]]

\* a file that ends with a full batch and one that ends with a batch of one row
FullBatches == batch_size * (MaxBatches - 1)

BatchFiles(r) ==
    IF r = 1
    THEN { BatchFile(FullBatches, 0), BatchFile(FullBatches + 1, 2), MalformedFile }
    ELSE {}

NextBatch == \E r \in Runs :
    \/ CommandCreateLog(r, BatchFiles(r), NoOverlap)
    \/ Steps(r, NoFault)

SpecBatch == Init /\ [][NextBatch]_vars

\* ingestions, each followed by the admin site, the evaluators, a cleanup or
\* an export: one sentence, with predictions, without them, with others
StoreRows == { ExampleRow,
               [ExampleRow EXCEPT !.gpt4 = <<>>, !.gemini = <<>>],
               [ExampleRow EXCEPT !.gpt4 = <<"q">>] }

StoreFiles(r) ==
    IF r = 1 THEN GoodFiles(MaxRows, StoreRows) \cup { MalformedFile }
    ELSE IF r <= MaxSequentialRuns THEN GoodFiles(MaxRowsLater, StoreRows)
    ELSE {}

NextStore ==
    \/ \E r \in Runs :
         \/ CommandCreateLog(r, StoreFiles(r), NoOverlap)
         \/ Steps(r, NoFault)
         \/ CleanupData(r, BOOLEAN, NoOverlap)
         \/ ExportEvaluations(r, NoOverlap)
    \/ AdminSetConfidence
    \/ CreateEvaluation

SpecStore == Init /\ [][NextStore]_vars

(***************************************************************************)
(* Properties.                                                             *)
(***************************************************************************)
Terminal == {"completed", "failed"}

RowPcs == {"get_review", "update_review", "get_sentence", "update_sentence",
           "prediction", "count", "commit"}

\* the step counts a row of run r as failed
RowFailsIn(r) == proc'[r].failed_rows = proc[r].failed_rows + 1

C2_RowAtomicity ==
    [][\A r \in Runs : RowFailsIn(r) => db' = db /\ tx'[r] = NoTx]_vars

\* the second row created its Review, failed on its sentence, and only the
\* Review of the first, successful row is in the store
C2_Witness ==
    \E r \in Runs :
        /\ proc[r].pc = "finalize"
        /\ Len(proc[r].df) = 2
        /\ proc[r].successful_rows = 1 /\ proc[r].failed_rows = 1
        /\ proc[r].df[2].review_id # proc[r].df[1].review_id
        /\ proc[r].df[2].review_text # None
        /\ proc[r].df[2].review_sentence = None
        /\ { x.review_id : x \in db.reviews } = { proc[r].df[1].review_id }

\* C3: every run that ends 'completed' has successful_rows + failed_rows =
\* total_rows, also when a row fails at the commit of its atomic scope.
C3_CountersAddUp ==
    \A r \in Runs : saved_log[r].status = "completed" =>
        saved_log[r].successful_rows + saved_log[r].failed_rows = saved_log[r].total_rows

\* C4: a failed row never aborts the run: no step inside a row's atomic
\* scope, failing or not, leads anywhere but to the rest of the row, the next
\* row or the batch loop (the handler of process_csv_file is not reached), the
\* loop goes on to the last row, and the run returns success with the row
\* counts and the ledger 'completed'.
C4_RowFailureNeverAborts ==
    /\ [][\A r \in Runs : proc[r].pc \in RowPcs =>
            proc'[r].pc \in RowPcs \cup {"row", "batch"}]_vars
    /\ [](\A r \in Runs : proc[r].failed_rows > 0 =>
            /\ proc[r].pc # "except"
            /\ proc[r].pc \in {"finalize", "returned", "done"} => proc[r].k = proc[r].total_rows
            /\ proc[r].pc \in {"returned", "done"} =>
                /\ saved_log[r].status = "completed"
                /\ proc[r].result.success
                /\ proc[r].result.total_rows = proc[r].total_rows
                /\ proc[r].result.failed_rows = proc[r].failed_rows
                /\ proc[r].result.successful_rows = proc[r].successful_rows)

\* every row of a two-row file failed and the run ended 'completed'
C4_Witness ==
    \E r \in Runs : /\ proc[r].pc = "done"
                     /\ proc[r].total_rows = 2
                     /\ proc[r].failed_rows = 2 /\ proc[r].successful_rows = 0
                     /\ saved_log[r].status = "completed"

\* the step ends the processing of the current row of run r
RowEndsIn(r) == proc[r].pc \in RowPcs /\ proc'[r].pc \notin RowPcs

\* the step commits the current row of run r
RowCommitsIn(r) == proc[r].pc = "commit" /\ RowEndsIn(r) /\ ~ RowFailsIn(r)

ReviewsWithId(t, review_id) == { x \in t.reviews : x.review_id = review_id }

SentencesWithKey(t, review_id, sentence_id) ==
    { x \in t.sentences : /\ x.sentence_id = sentence_id
                          /\ \E v \in ReviewsWithId(t, review_id) : v.id = x.review }

PredictionsFor(t, sentence, m) ==
    { x \in t.predictions : x.sentence = sentence /\ x.model_name = model_data[m].model_name }

\* C5: a second run of process_csv_file on the identical file, no other
\* writer in between, leaves reviews, sentences and predictions as the first
\* run left them and reports the same result with the same successful_rows.
C5_RerunIsIdempotent ==
    \A r1 \in Runs : \A r2 \in Runs :
        ( /\ r1 < r2
          /\ hist[r1].returned /\ hist[r2].returned
          /\ hist[r1].file = hist[r2].file
          /\ \A o \in Runs : r1 < o /\ o < r2 => ~ hist[o].returned )
        => /\ hist[r2].db = hist[r1].db
           /\ hist[r2].result.success = hist[r1].result.success
           /\ hist[r1].result.success =>
                hist[r2].result.successful_rows = hist[r1].result.successful_rows

\* the cleaned row is stored: one Review, one sentence with the row's text and
\* prediction fields, one prediction per model with a non-blank text
RowStored(row, t) ==
    /\ Cardinality(ReviewsWithId(t, row.review_id)) = 1
    /\ Cardinality(SentencesWithKey(t, row.review_id, row.sentence_id)) = 1
    /\ \A x \in SentencesWithKey(t, row.review_id, row.sentence_id) :
        /\ x.review_sentence = row.review_sentence
        /\ \A m \in DOMAIN model_data :
            /\ SentenceField(x, model_data[m].model_name) = RowPrediction(row, m)
            /\ IF Truthy(RowPrediction(row, m))
               THEN /\ Cardinality(PredictionsFor(t, x.id, m)) = 1
                    /\ \A q \in PredictionsFor(t, x.id, m) :
                         q.prediction_text = RowPrediction(row, m)
               ELSE PredictionsFor(t, x.id, m) = {}

\* C6: after a row that survived normalization, with a (review_id,
\* sentence_id) pair not in the store before, has been processed, the store
\* holds exactly one Review, one sentence and the predictions of the row.
C6_NewRowIsStored ==
    [][\A r \in Runs :
        (RowEndsIn(r) /\ SentencesWithKey(db, Row(r).review_id, Row(r).sentence_id) = {})
        => RowStored(Row(r), db')]_vars

\* the cell of model m of the current row, as written in the file
RawCell(r, m) ==
    LET raw == proc[r].file.rows[Row(r).index + 1]
    IN IF m = 1 THEN raw.gpt4 ELSE IF m = 2 THEN raw.gemini ELSE raw.perplexity

\* empty, whitespace-only or one of the sentinel spellings of _clean_data
BlankInFile(raw) == Strip(raw) \in SENTINELS

PredictionsOfModel(t, m) == { x \in t.predictions : x.model_name = model_data[m].model_name }

C8_OneReviewPerId ==
    /\ [](\A x \in db.reviews : \A y \in db.reviews : x.review_id = y.review_id => x = y)
    /\ [][\A r \in Runs : RowCommitsIn(r) =>
            \A x \in ReviewsWithId(db, Row(r).review_id) :
                /\ Cardinality(db'.reviews) = Cardinality(db.reviews)
                /\ \E y \in db'.reviews :
                    /\ y.id = x.id /\ y.review_id = x.review_id
                    /\ y.review_text = IF Truthy(Row(r).review_text) THEN Row(r).review_text
                                       ELSE x.review_text]_vars

\* two rows with one review_id and different texts were stored, and the one
\* Review holds the text of the second
C8_Witness ==
    \E r \in Runs :
        /\ proc[r].pc = "finalize"
        /\ Len(proc[r].df) = 2 /\ proc[r].successful_rows = 2
        /\ proc[r].df[1].review_id = proc[r].df[2].review_id
        /\ Truthy(proc[r].df[1].review_text) /\ Truthy(proc[r].df[2].review_text)
        /\ proc[r].df[1].review_text # proc[r].df[2].review_text
        /\ \A x \in db.reviews : x.review_text = proc[r].df[2].review_text
        /\ Cardinality(db.reviews) = 1

Overlapping == FirstOverlap..MaxRuns

\* C9: in every reachable state of the store, whatever the interleaving of
\* the runs, no two sentences share (review, sentence_id) and no two
\* predictions share (sentence, model_name).
C9_UniqueKeys ==
    /\ \A x \in db.sentences : \A y \in db.sentences : SameSentenceKey(x, y) => x = y
    /\ \A x \in db.predictions : \A y \in db.predictions : SamePredictionKey(x, y) => x = y

\* a run is about to insert a sentence its lookup does not find, while the
\* open transaction of an overlapping run holds an uncommitted sentence with
\* the same (review, sentence_id) and an uncommitted prediction for it
C9_Witness ==
    \E r \in Overlapping : \E o \in Overlapping :
        /\ r # o
        /\ proc[r].pc = "get_sentence"
        /\ \E y \in tx[o].sentences :
            /\ y.id \notin Ids(db.sentences)
            /\ y.review = proc[r].review.id
            /\ y.sentence_id = Row(r).sentence_id
            /\ SentenceLookup(View(r).sentences, y) = {}
            /\ \E q \in tx[o].predictions : q.sentence = y.id

\* C10: two overlapping runs with rows of one review_id can both miss the
\* lookup of the Review and leave two Reviews with that review_id; this
\* happens only to rows of overlapping runs that both committed, for a
\* review_id the store did not hold before them, and leaves no more
\* Reviews of that review_id than runs that overlapped.
C10_DuplicateReviewOnlyByRace ==
    \A x \in db.reviews : \A y \in db.reviews :
        (x # y /\ x.review_id = y.review_id)
        => /\ \E r \in Overlapping : \E o \in Overlapping :
                /\ r # o
                /\ proc[r].successful_rows >= 1 /\ proc[o].successful_rows >= 1
                /\ \E n \in DOMAIN proc[r].df : proc[r].df[n].review_id = x.review_id
                /\ \E n \in DOMAIN proc[o].df : proc[o].df[n].review_id = x.review_id
           /\ \A q \in Runs \ Overlapping :
                hist[q].returned => ReviewsWithId(hist[q].db, x.review_id) = {}
           /\ Cardinality(ReviewsWithId(db, x.review_id)) <= Cardinality(Overlapping)

\* both overlapping runs ended 'completed' with their row stored and none
\* failed, and the store holds two Reviews with the review_id of their rows
C10_Witness ==
    \E r \in Overlapping : \E o \in Overlapping :
        /\ r # o
        /\ proc[r].pc = "done" /\ proc[o].pc = "done"
        /\ saved_log[r].status = "completed" /\ saved_log[o].status = "completed"
        /\ saved_log[r].successful_rows = 1 /\ saved_log[o].successful_rows = 1
        /\ saved_log[r].failed_rows = 0 /\ saved_log[o].failed_rows = 0
        /\ proc[r].df[1].review_id = proc[o].df[1].review_id
        /\ Cardinality(ReviewsWithId(db, proc[r].df[1].review_id)) = 2

IngestionEntries == {"command", "upload_csv"}

\* C11: between any two rows of the loop the saved ledger holds the numbers
\* of rows succeeded and failed so far, and the saved counters never decrease.
C11_LedgerCountersFollowRows ==
    /\ [](\A r \in Runs : proc[r].pc \in {"row", "batch"} =>
            /\ saved_log[r].successful_rows = proc[r].successful_rows
            /\ saved_log[r].failed_rows = proc[r].failed_rows)
    /\ [][\A r \in Runs : (saved_log[r] # NoLog /\ saved_log'[r] # NoLog) =>
            /\ saved_log'[r].successful_rows >= saved_log[r].successful_rows
            /\ saved_log'[r].failed_rows >= saved_log[r].failed_rows]_vars

\* the file parses and its header lacks a required column
LacksColumn(f) == f.parses /\ Decodes(f.bytes, "utf-8") /\ ~ (AllColumns \subseteq f.columns)

\* C12: a request to ingest a file that lacks a required column is refused
\* before processing starts, whatever the entry point: its ledger is never
\* 'processing' or 'completed', no row is processed and nothing is written.
C12_MissingColumnRefused ==
    \A r \in Runs : (proc[r].entry \in IngestionEntries /\ LacksColumn(proc[r].file)) =>
        /\ saved_log[r].status \notin {"processing", "completed"}
        /\ proc[r].pc \notin RowPcs /\ proc[r].k = 0
        /\ ~ tx[r].active

\* C13: the handler of process_csv_file ends a run whose read or
\* normalization raised: the ledger is saved 'failed' with the text of the
\* exception and the log entries accumulated so far, the call returns
\* success=false with the error and the log and does not raise; and no
\* failure of the read or of the normalization goes anywhere else.
C13_FailureIsRecorded ==
    /\ [][\A r \in Runs : proc[r].pc = "except" /\ proc'[r] # proc[r] =>
            /\ proc'[r].pc = "returned"
            /\ saved_log'[r].status = "failed"
            /\ saved_log'[r].error_message = proc[r].error
            /\ saved_log'[r].processing_log.logs = proc[r].processing_log
            /\ proc'[r].result = [kind |-> "result", success |-> FALSE, error |-> proc[r].error,
                                   processing_log |-> proc[r].processing_log]]_vars
    /\ [][\A r \in Runs : proc[r].pc \in {"read", "clean"} /\ proc'[r] # proc[r] =>
            \/ proc'[r].pc = "except" /\ proc'[r].error # "None"
                 /\ proc'[r].processing_log = proc[r].processing_log
            \/ proc'[r].pc \in {"clean", "total"} /\ proc'[r].error = "None"]_vars
    /\ [](\A r \in Runs : (proc[r].pc \in {"returned", "done"} /\ proc[r].entry = "command"
                              /\ ~ proc[r].result.success) =>
            /\ saved_log[r].status = "failed"
            /\ saved_log[r].error_message = proc[r].result.error
            /\ saved_log[r].processing_log.logs = proc[r].result.processing_log)

\* the normalization of a file without sentence_id raised after the file was
\* read, and the ledger is 'failed' with the log entry of the read
C13_Witness ==
    \E r \in Runs :
        /\ proc[r].pc = "done"
        /\ proc[r].file = MissingColumnFile
        /\ saved_log[r].status = "failed"
        /\ saved_log[r].error_message = "KeyError"
        /\ Len(saved_log[r].processing_log.logs) = 1
        /\ ~ proc[r].result.success

\* the first entry of the processing log is the one of the successful read
ReadDone(r) == proc[r].processing_log # <<>>

\* C14: the saved ledger is 'processing' only once the file has been read:
\* the ledger of a run whose file cannot be read is never saved 'processing'.
C14_ProcessingOnlyAfterRead ==
    \A r \in Runs : saved_log[r].status = "processing" =>
        /\ ReadDone(r)
        /\ ReadCsvFrom(proc[r].file, 1, <<>>).ok

\* C15: a request that reaches an ingestion entry point leaves it with one
\* ledger in 'pending', created without error with the attributes the entry
\* point passes, before the file is written or read.
C15_LedgerCreatedPending ==
    [][\A r \in Runs : (proc[r].pc = "idle" /\ proc'[r].entry \in IngestionEntries) =>
        /\ saved_log'[r] = NewUploadLog
        /\ saved_log'[r].status = "pending"
        /\ proc'[r].error = "None"
        /\ proc'[r].pc = "created"
        /\ proc'[r].tried = <<>>]_vars

ValidateEntries == {"validate_only", "validate_csv"}

\* read_csv with utf-8 parses the file
Readable(f) == Decodes(f.bytes, "utf-8") /\ f.parses

\* the elements of a sequence
Range(q) == { q[n] : n \in DOMAIN q }

\* the position of a column in the list of required columns
Position(col) == CHOOSE n \in DOMAIN REQUIRED_COLUMNS : REQUIRED_COLUMNS[n] = col

\* C16: for a readable file the validator reports as missing exactly the
\* required columns whose name, letter for letter, is not in the header,
\* each once and in the order of the list of required columns, and valid is
\* whether none is missing; a header that lacks only sentence_id gives
\* valid = false and missing_columns = ['sentence_id'].
C16_MissingColumnsExact ==
    \A r \in Runs : (proc[r].entry \in ValidateEntries /\ Readable(proc[r].file)) =>
        LET report == proc[r].result.report
            missing == report.missing_columns
        IN /\ Range(missing) = AllColumns \ proc[r].file.columns
           /\ \A n \in DOMAIN missing : \A k \in DOMAIN missing :
                n < k => Position(missing[n]) < Position(missing[k])
           /\ report.valid = (missing = <<>>)
           /\ (AllColumns \ proc[r].file.columns = {"sentence_id"}) =>
                (~ report.valid /\ missing = <<"sentence_id">>)

\* a header without review_id and with Sentence_ID in place of sentence_id
\* has been reported: both are missing, in the order of the list
C16_Witness ==
    \E r \in Runs :
        /\ proc[r].entry \in ValidateEntries /\ Readable(proc[r].file)
        /\ "Sentence_ID" \in proc[r].file.columns
        /\ ~ proc[r].result.report.valid
        /\ proc[r].result.report.missing_columns = <<"review_id", "sentence_id">>

\* C17: the validator always returns a report: the one of a file that cannot
\* be read has valid = false, an error text and empty or zero values; and a
\* validation, by the command or by the endpoint, leaves every ledger and
\* every review, sentence and prediction as they were.
C17_ValidatorOnlyReports ==
    /\ [](\A r \in Runs : proc[r].entry \in ValidateEntries =>
            /\ proc[r].pc = "done"
            /\ proc[r].result.kind = "report"
            /\ "valid" \in DOMAIN proc[r].result.report
            /\ "raised" \notin DOMAIN proc[r].result.report
            /\ ~ Readable(proc[r].file) =>
                /\ DOMAIN proc[r].result.report =
                       {"valid", "error", "missing_columns", "total_columns", "total_rows",
                        "sample_data", "columns"}
                /\ ~ proc[r].result.report.valid
                /\ proc[r].result.report.error # "None"
                /\ proc[r].result.report.missing_columns = <<>>
                /\ proc[r].result.report.total_columns = 0
                /\ proc[r].result.report.total_rows = 0
                /\ proc[r].result.report.sample_data = <<>>
                /\ proc[r].result.report.columns = {}
            /\ upload_log[r] = NoLog /\ saved_log[r] = NoLog
            /\ tx[r] = NoTx)
    /\ [][\A r \in Runs : proc'[r].entry \in ValidateEntries =>
            /\ db' = db /\ tx' = tx
            /\ upload_log' = upload_log /\ saved_log' = saved_log]_vars

\* after an ingestion that left a ledger and a store, a file of legacy bytes
\* was validated and reported unreadable
C17_Witness ==
    \E r \in Runs :
        /\ proc[r].entry \in ValidateEntries
        /\ proc[r].file.bytes = "legacy" /\ proc[r].file.parses
        /\ proc[r].result.report.error = "UnicodeDecodeError"
        /\ db.reviews # {}
        /\ \E o \in Runs : saved_log[o].status = "completed"

\* the file has every required column, parses, and is in a legacy
\* single-byte encoding that is not valid UTF-8
LegacyEncoded(f) == f.parses /\ AllColumns \subseteq f.columns /\ ~ Decodes(f.bytes, "utf-8")

\* C18: a request to ingest a file with every required column in a legacy
\* single-byte encoding passes the pre-check of its entry point (the
\* validator of upload_csv accepts the file), and when the entry point is
\* done the file was read with the second or third encoding and the ledger
\* is 'completed'.
C18_LegacyFileIsIngested ==
    \A r \in Runs : (proc[r].entry \in IngestionEntries /\ LegacyEncoded(proc[r].file)) =>
        /\ proc[r].entry = "upload_csv" => validate_csv_file(proc[r].file).valid
        /\ proc[r].pc = "done" =>
            /\ saved_log[r].status = "completed"
            /\ Len(proc[r].tried) \in {2, 3}

\* the run has tried to read its file
ReadTried(r) == proc[r].tried # <<>>

\* the candidates were tried in the order utf-8, latin-1, cp1252, and when the
\* read succeeded the first of them that decodes the file returned the table
\* after one log entry naming it
TriedInOrder(r) ==
    LET tried == proc[r].tried
    IN /\ Len(tried) <= 3
       /\ tried = SubSeq(<<"utf-8", "latin-1", "cp1252">>, 1, Len(tried))
       /\ \A n \in 1..(Len(tried) - 1) : ~ Decodes(proc[r].file.bytes, tried[n])
       /\ ReadDone(r) =>
            /\ Decodes(proc[r].file.bytes, tried[Len(tried)])
            /\ proc[r].processing_log[1] =
                   [message |-> "Successfully read CSV", encoding |-> tried[Len(tried)]]
            /\ \A n \in 2..Len(proc[r].processing_log) :
                   proc[r].processing_log[n].message # "Successfully read CSV"
            /\ proc[r].df = ReadTable(proc[r].file) \/ proc[r].pc # "clean"

\* C19 as stated: the candidates are tried in order, the first success
\* returns after one log entry, and the read fails only when every candidate
\* has been tried.
C19_FailsOnlyAfterAllCandidates ==
    \A r \in Runs : ReadTried(r) =>
        /\ TriedInOrder(r)
        /\ ~ ReadDone(r) => proc[r].tried = <<"utf-8", "latin-1", "cp1252">>

\* C19 as amended: the candidates are tried in order, the first that decodes
\* the file returns the table after one log entry naming it; a candidate
\* that fails to decode never ends the read while candidates are left, and
\* the read fails when every candidate failed to decode or when the parse of
\* a candidate raises another error, the later candidates left untried.
C19_DecodeFailureFallsThrough ==
    \A r \in Runs : ReadTried(r) =>
        /\ TriedInOrder(r)
        /\ ~ ReadDone(r) =>
            /\ proc[r].pc \in {"except", "returned", "done"}
            /\ \/ /\ proc[r].tried = <<"utf-8", "latin-1", "cp1252">>
                   /\ \A n \in 1..3 : ~ Decodes(proc[r].file.bytes, proc[r].tried[n])
               \/ ~ proc[r].file.parses
        /\ (proc[r].file.parses /\ \E n \in 1..3 :
                Decodes(proc[r].file.bytes, <<"utf-8", "latin-1", "cp1252">>[n])) => ReadDone(r)

\* a file with a byte cp1252 leaves undefined was read: utf-8 failed to
\* decode it, latin-1 read it, and the log names latin-1
C19_Witness ==
    \E r \in Runs :
        /\ proc[r].file.bytes = "legacy-undefined"
        /\ proc[r].tried = <<"utf-8", "latin-1">>
        /\ proc[r].pc = "clean"
        /\ proc[r].processing_log =
               <<[message |-> "Successfully read CSV", encoding |-> "latin-1"]>>

\* the table of run r is the normalized one
Normalized(r) == proc[r].pc \in {"total", "batch", "row", "finalize"} \cup RowPcs

\* C20: every row of the normalized table has a non-empty review_id,
\* review_sentence and sentence_id (the others were dropped and are not in
\* total_rows), so that no row fails for the lack of one of them.
C20_EssentialValuesPresent ==
    \A r \in Runs : Normalized(r) =>
        \A n \in DOMAIN proc[r].df :
            /\ Truthy(proc[r].df[n].review_id)
            /\ Truthy(proc[r].df[n].review_sentence)
            /\ Truthy(proc[r].df[n].sentence_id)

\* the sentence x holds the text and the three prediction values of the row
HoldsRowValues(x, row) ==
    /\ x.review_sentence = row.review_sentence
    /\ \A m \in DOMAIN model_data :
         SentenceField(x, model_data[m].model_name) = RowPrediction(row, m)

\* C21: for a row whose (review, sentence_id) is already stored: the step
\* that compares the sentence with the row writes the sentence once, with
\* the row's text and prediction values (None for an empty cell) and the
\* same id, review and sentence_id, when a field differs, and writes nothing
\* when none differs; no other step of the row writes a sentence; and when
\* the row commits the stored sentence holds the row's values.
C21_FoundSentenceTakesRowValues ==
    /\ [][\A r \in Runs :
            (proc[r].pc = "update_sentence" /\ ~ proc[r].created /\ ~ RowFailsIn(r)
               /\ proc'[r] # proc[r]) =>
                LET old == proc[r].sentence
                    new == proc'[r].sentence
                IN /\ HoldsRowValues(new, Row(r))
                   /\ new.id = old.id /\ new.review = old.review
                   /\ new.sentence_id = old.sentence_id
                   /\ tx'[r].sentences = IF new = old THEN tx[r].sentences
                                         ELSE Merge(tx[r].sentences, {new})]_vars
    /\ [][\A r \in Runs :
            (proc[r].pc \in RowPcs \ {"update_sentence"} /\ ~ RowEndsIn(r)
               /\ ~ (proc[r].pc = "get_sentence" /\ proc'[r].created)) =>
                tx'[r].sentences = tx[r].sentences]_vars
    /\ [][\A r \in Runs : (RowCommitsIn(r) /\ ~ proc[r].created) =>
            \E x \in db'.sentences :
                /\ x.id = proc[r].sentence.id
                /\ HoldsRowValues(x, Row(r))
                /\ \A y \in db'.sentences : SameSentenceKey(x, y) => y = x]_vars

\* the second row of a file found the sentence of the first with other
\* prediction values (one of them empty), was committed, and the stored
\* sentence holds the values of the second row
C21_Witness ==
    \E r \in Runs :
        /\ proc[r].pc = "finalize" /\ proc[r].successful_rows = 2
        /\ Len(proc[r].df) = 2
        /\ proc[r].df[1].review_id = proc[r].df[2].review_id
        /\ proc[r].df[1].gpt4 = <<"p">> /\ proc[r].df[2].gpt4 = None
        /\ \E x \in db.sentences : HoldsRowValues(x, proc[r].df[2]) /\ x.gpt4_prediction = None

\* the texts a response of the upload gate carries
ResponseTexts(response) ==
    {response.error.text} \cup { response.error.columns[n] : n \in DOMAIN response.error.columns }

\* C23: an upload the validator rejects is answered by the response of the
\* gate and by no internal exception, and that response carries the missing
\* columns and, when the file could not be parsed, the text of the parse error.
C23_RejectionIsDiagnosed ==
    \A r \in Runs :
        (proc[r].entry = "upload_csv" /\ proc[r].pc = "done"
           /\ ~ validate_csv_file(proc[r].file).valid) =>
            LET report == validate_csv_file(proc[r].file)
                response == UploadGateResponse(report)
            IN /\ proc[r].error = "None"
               /\ response.error.columns = report.missing_columns
               /\ "error" \in DOMAIN report => report.error \in ResponseTexts(response)

\* C26: for every committed sentence and every model, a non-null prediction
\* field of the sentence has its ModelPrediction with the same text, and a
\* ModelPrediction of the sentence has its non-null field with the same text.
C26_PredictionsMatchFields ==
    \A x \in db.sentences : \A m \in DOMAIN model_data :
        LET field == SentenceField(x, model_data[m].model_name)
            records == PredictionsFor(db, x.id, m)
        IN /\ field # None => \E q \in records : q.prediction_text = field
           /\ records # {} => field # None /\ \A q \in records : q.prediction_text = field

\* C28: a normalized row with review_id, review_sentence and sentence_id and
\* without review_text does not fail, whether its Review is stored or has to
\* be created, and it leaves the text of a stored Review as it is.
C28_EmptyReviewTextSucceeds ==
    [][\A r \in Runs :
        (RowEndsIn(r) /\ Truthy(Row(r).review_id) /\ Truthy(Row(r).review_sentence)
           /\ Truthy(Row(r).sentence_id) /\ ~ Truthy(Row(r).review_text)) =>
            /\ ~ RowFailsIn(r)
            /\ \A x \in ReviewsWithId(db, Row(r).review_id) : x \in db'.reviews]_vars

\* C29: the number in the message of a failed row is the position of the row
\* in the normalized table, between the start row logged for its batch and
\* that start row + 999.
C29_RowNumberIsPosition ==
    [][\A r \in Runs : (proc[r].pc \in RowPcs /\ RowFailsIn(r)) =>
        LET log == proc'[r].processing_log
            entry == log[Len(log)]
            start == proc[r].i + 1
        IN /\ entry.message = "Row"
           /\ entry.row = proc[r].k
           /\ start <= entry.row /\ entry.row <= start + (batch_size - 1)]_vars

\* C27: a row whose review_id is the one of two stored Reviews does not
\* fail, and when it has ended its sentence is stored under one of them.
C27_DuplicateReviewIsTolerated ==
    [][\A r \in Runs :
        (RowEndsIn(r) /\ Cardinality(ReviewsWithId(db, Row(r).review_id)) > 1) =>
            /\ ~ RowFailsIn(r)
            /\ SentencesWithKey(db', Row(r).review_id, Row(r).sentence_id) # {}]_vars

\* the run is inside the loop over the rows of a batch
InBatch(r) == proc[r].pc \in {"row"} \cup RowPcs

\* the entries of the log that announce a batch
BatchEntries(log) == SelectSeq(log, LAMBDA entry : entry.message = "Processing batch")

\* the entries of the first n batches: start rows 1, 1001, 2001, ...
BatchEntriesUpTo(n) ==
    [b \in 1..n |-> [message |-> "Processing batch", row |-> batch_size * (b - 1) + 1]]

\* the rows counted so far: line 142 counts the row before its commit
RowsCounted(r) == proc[r].successful_rows + proc[r].failed_rows

\* the number of batches of a table of n rows
BatchCount(n) == (n + batch_size - 1) \div batch_size

\* C25: the rows of the normalized table are processed once each, in the
\* order of the table, in consecutive batches of at most 1000 rows; the log
\* has one entry per batch, with start rows 1, 1001, 2001, ..., appended
\* before the first row of the batch; and a row that fails leaves what the
\* earlier rows committed as it is.
C25_BatchesInOrder ==
    /\ [](\A r \in Runs :
            /\ InBatch(r) =>
                /\ proc[r].i % batch_size = 0
                /\ proc[r].i + 1 <= proc[r].k
                /\ proc[r].k <= Min(proc[r].i + batch_size, proc[r].total_rows)
                /\ RowsCounted(r) = IF proc[r].pc = "commit" THEN proc[r].k ELSE proc[r].k - 1
                /\ BatchEntries(proc[r].processing_log)
                     = BatchEntriesUpTo(proc[r].i \div batch_size + 1)
            /\ proc[r].pc = "finalize" =>
                /\ proc[r].total_rows = Len(proc[r].df)
                /\ RowsCounted(r) = proc[r].total_rows
                /\ BatchEntries(proc[r].processing_log)
                     = BatchEntriesUpTo(BatchCount(proc[r].total_rows)))
    /\ [][\A r \in Runs :
            /\ (InBatch(r) /\ InBatch(r)') =>
                 proc'[r].k = IF RowEndsIn(r) THEN proc[r].k + 1 ELSE proc[r].k
            /\ (proc[r].pc = "batch" /\ InBatch(r)') => proc'[r].k = proc[r].i + 1
            /\ RowFailsIn(r) => db' = db]_vars

\* in a table with one row more than a full batch the second row has
\* failed after the batch was announced with start row 1, the first row is
\* still committed, and the loop goes on with the third row of the batch
C25_Witness ==
    \E r \in Runs :
        /\ proc[r].pc = "row" /\ proc[r].k = 3
        /\ proc[r].total_rows = FullBatches + 1
        /\ proc[r].failed_rows = 1 /\ proc[r].successful_rows = 1
        /\ BatchEntries(proc[r].processing_log) = BatchEntriesUpTo(1)
        /\ SentencesWithKey(db, proc[r].df[1].review_id, proc[r].df[1].sentence_id) # {}

\* the step is one of process_csv_file for run r
IngestionStep(r) == proc[r].entry = "command" /\ proc'[r] # proc[r]

\* C22: no step of process_csv_file gives a ModelPrediction a confidence
\* score: a committed prediction with a score had it before the step; every
\* prediction a row has written has no score; and when the row commits, the
\* predictions of its sentence for the models the row has a text for have none.
C22_IngestionSetsNoConfidence ==
    [][\A r \in Runs : IngestionStep(r) =>
        /\ \A q \in db'.predictions : q.confidence_score # None => q \in db.predictions
        /\ \A q \in tx'[r].predictions : q.confidence_score = None
        /\ RowCommitsIn(r) =>
             \A m \in DOMAIN model_data : Truthy(RowPrediction(Row(r), m)) =>
                 /\ PredictionsFor(db', proc[r].sentence.id, m) # {}
                 /\ \A q \in PredictionsFor(db', proc[r].sentence.id, m) :
                      q.confidence_score = None]_vars

\* a row is about to commit a prediction it has overwritten, whose stored
\* copy carries a confidence score set through the admin site
C22_Witness ==
    \E r \in Runs :
        /\ proc[r].pc = "commit"
        /\ \E q \in tx[r].predictions : \E old \in db.predictions :
             /\ old.id = q.id
             /\ old.confidence_score \in ConfidenceScores
             /\ q.confidence_score = None

\* the step is a call of export_evaluations_to_csv by run r
ExportStep(r) == proc[r].pc = "idle" /\ proc'[r].entry = "export"

\* C24: the table export_evaluations_to_csv returns has one row for each
\* stored HumanEvaluation and no other, and its columns are the same list
\* in the same order whatever the store holds, no evaluation included.
C24_ExportIsComplete ==
    [][\A r \in Runs : ExportStep(r) =>
        LET df == proc'[r].result.df
        IN /\ Len(df.rows) = Cardinality(db.evaluations)
           /\ \A e \in db.evaluations :
                Cardinality({ n \in DOMAIN df.rows : df.rows[n] = ExportRow(db, e) }) = 1
           /\ df.columns = ExportColumns]_vars

\* the step is a run of the cleanup_data command
CleanupStep(r) == proc[r].pc = "idle" /\ proc'[r].entry = "cleanup"

\* C30: cleanup_data leaves every sentence that has a ModelPrediction in
\* the store, with its ModelPredictions and HumanEvaluations, and with
\* --dry-run it leaves the whole store as it is.
C30_CleanupKeepsPredictedSentences ==
    [][\A r \in Runs : CleanupStep(r) =>
        /\ \A x \in db.sentences : (\E q \in db.predictions : q.sentence = x.id) =>
             /\ x \in db'.sentences
             /\ \A q \in db.predictions : q.sentence = x.id => q \in db'.predictions
             /\ \A e \in db.evaluations : e.sentence = x.id => e \in db'.evaluations
        /\ proc'[r].result.dry_run => db' = db]_vars

====
